---- MODULE Spec2Model ----
(***************************************************************************)
(* Model of ai_edge_torch/generative/utilities/verifier.py: the greedy     *)
(* decode loop (generate), the single-step comparator                      *)
(* (verify_with_input_ids), the multi-step comparator                      *)
(* (verify_model_with_prompts) and the orchestrator                        *)
(* (verify_reauthored_transformers).                                       *)
(*                                                                         *)
(* Logits are fixed-point numbers: one unit is 1e-5, so 200000 is 2.0 and  *)
(* an atol of 1 is 1e-5.  Logits are finite (no NaN, no infinity) and      *)
(* tolerances are non-negative.  Token sequences are 1-based sequences of  *)
(* token ids; a position p of the code (0-based) is index p + 1 here.      *)
(***************************************************************************)
EXTENDS Integers, Sequences, FiniteSets, TLC

\* ------------------------------------------------------------------ bounds
MaxPromptLen == 2      \* longest token sequence handed in directly
MaxResponseLen == 4    \* largest response_len handed to generate directly
MaxTextLen == 2        \* longest prompt text, in characters
MaxNewTokens == 2      \* most tokens the original model's generate adds
MaxAtol == 2           \* largest tolerance, in units of 1e-5
KvCacheMaxLen == 4     \* stands for kv_cache_max_len (1024 in the code)

\* torch.allclose's default rtol is 1e-05: RtolInv is 1 / rtol.
RtolInv == 100000

\* ---------------------------------------------------------------- tokenizer
\* The tokenizer's vocabulary: token id t decodes to VocabPieces[t + 1].
\* Token 0 is the unknown/padding token, 3 is the merge "ab", and 4 is the
\* byte-fallback token of "a": two ids with the same surface text, as in the
\* byte-level vocabularies of the verified models.
VocabPieces == << <<"?">>, <<"a">>, <<"b">>, <<"a", "b">>, <<"a">> >>

Vocab == 0 .. (Len(VocabPieces) - 1)

Chars == {"a", "b"}

\* tokenizer.encode(prompts, return_tensors="pt"): greedy longest match.
RECURSIVE Encode(_)
Encode(text) ==
  IF Len(text) = 0 THEN <<>>
  ELSE IF Len(text) >= 2 /\ text[1] = "a" /\ text[2] = "b"
       THEN <<3>> \o Encode(SubSeq(text, 3, Len(text)))
  ELSE IF text[1] = "a" THEN <<1>> \o Encode(SubSeq(text, 2, Len(text)))
  ELSE <<2>> \o Encode(SubSeq(text, 2, Len(text)))

\* tokenizer.decode(ids): the concatenation of the pieces.
RECURSIVE Decode(_)
Decode(ids) ==
  IF Len(ids) = 0 THEN <<>>
  ELSE VocabPieces[ids[1] + 1] \o Decode(SubSeq(ids, 2, Len(ids)))

\* ------------------------------------------------------------------- models
\* A model instance is a deterministic function from a token context to one
\* logit per vocabulary entry.  BaseRows is the reference function: the row is
\* chosen by a hash of the context, and it has rows with a single maximum,
\* rows with equal maxima and a constant row.
BaseRows == <<
  <<30, 0, 10, 20, 0>>,
  <<0, 10, 30, 30, 20>>,
  <<20, 30, 0, 10, 20>>,
  <<0, 0, 0, 0, 0>>,
  <<10, 20, 0, 0, 30>>,
  <<0, 10, 20, 30, 10>>,
  <<10, 30, 20, 0, 30>> >>

\* ModelTable is the family of model instances considered: 1 is the
\* reference, 2 and 3 are up to 1e-5 and 3e-5 off it, 4 has logits around
\* 2.0, 5 is up to 2e-5 off 4, and 6 ranks the tokens differently.
ModelTable == <<
  [offset |-> 0,      noise |-> 0, turn |-> 0],
  [offset |-> 0,      noise |-> 1, turn |-> 0],
  [offset |-> 0,      noise |-> 3, turn |-> 0],
  [offset |-> 200000, noise |-> 0, turn |-> 0],
  [offset |-> 200000, noise |-> 2, turn |-> 0],
  [offset |-> 0,      noise |-> 0, turn |-> 2] >>

Models == 1 .. Len(ModelTable)

RECURSIVE CtxHash(_)
CtxHash(ctx) ==
  IF Len(ctx) = 0 THEN 0
  ELSE (CtxHash(SubSeq(ctx, 1, Len(ctx) - 1)) * 3 + ctx[Len(ctx)] + 1)
         % Len(BaseRows)

\* The logit vector a model computes for the last token of a context.
LogitsRow(m, ctx) ==
  LET h == CtxHash(ctx)
      p == ModelTable[m]
  IN  [v \in Vocab |->
         p.offset
         + BaseRows[h + 1][((v + p.turn) % Len(VocabPieces)) + 1]
         + p.noise * ((h + v + 1) % 2)]

\* The original model's native forward over a whole buffer: one logit vector
\* per position, position j attending to tokens 0..j.
OriginalForward(m, toks) ==
  [j \in 1 .. Len(toks) |-> LogitsRow(m, SubSeq(toks, 1, j))]

\* KVCache.from_model_config(config): an empty cache of the fixed capacity.
\* An entry is 0 when unwritten and token + 1 when written.
FromModelConfig ==
  [step |-> 0, entries |-> [p \in 1 .. KvCacheMaxLen |-> 0]]

\* The tokens written at cache positions 0..pos, in order.
CacheContext(kv, pos) == [q \in 1 .. (pos + 1) |-> kv.entries[q] - 1]

\* The reauthored model's forward(tokens, input_pos, kv_cache): writes each
\* token at its position into a new cache snapshot and computes position j's
\* logits from the cache entries 0..input_pos[j].
ModelForward(m, toks, input_pos, kv) ==
  LET written ==
        [step |-> kv.step + 1,
         entries |->
           [p \in 1 .. KvCacheMaxLen |->
              IF \E j \in 1 .. Len(toks) : input_pos[j] = p - 1
              THEN toks[CHOOSE j \in 1 .. Len(toks) : input_pos[j] = p - 1] + 1
              ELSE kv.entries[p]]]
  IN  [logits |->
         [j \in 1 .. Len(toks) |->
            LogitsRow(m, CacheContext(written, input_pos[j]))],
       kv_cache |-> written]

\* ------------------------------------------------------------ verifier.py
\* torch.arange(0, tokens.shape[1]): the positions 0..len-1.
InputPos(toks) == [j \in 1 .. Len(toks) |-> j - 1]

\* forward(model, tokens, kv_cache), lines 52-54.
forward(m, toks, kv) == ModelForward(m, toks, InputPos(toks), kv)

\* Tensor.argmax(): the index of the maximum, the first one among equals.
Argmax(row) ==
  CHOOSE v \in Vocab :
    /\ \A u \in Vocab : row[u] <= row[v]
    /\ \A u \in Vocab : u < v => row[u] < row[v]

GeneratedTokenM(logits) == Argmax(logits[1])

\* logits[0][-1].argmax().item(), line 78.
GeneratedToken(logits) == Argmax(logits[Len(logits)])

LoopCountM(len, ids) == IF len - Len(ids) + 1 > 0 THEN len - Len(ids) + 1 ELSE 0

\* range(response_len - len(input_ids)), line 76: the number of iterations,
\* fixed when the loop is entered.
LoopCount(len, ids) == IF len - Len(ids) > 0 THEN len - Len(ids) ELSE 0

PadTokensM(ids, max_len) ==
  [p \in 1 .. max_len |-> IF p <= Len(ids) THEN ids[p] ELSE 1]

\* torch.full((1, kv_cache_max_len), 0) and tokens[0, :input_ids_len] =
\* input_ids, lines 105-107.
PadTokens(ids, max_len) ==
  [p \in 1 .. max_len |-> IF p <= Len(ids) THEN ids[p] ELSE 0]

\* A Python index into a sequence: a negative index counts from the end.
PyIndex(seq, i) == IF i >= 0 THEN seq[i + 1] ELSE seq[Len(seq) + i + 1]

\* outputs_original.logits[0, input_ids_len - 1, :], line 111.
LogitsOriginalAt(logits, input_ids_len) == PyIndex(logits, input_ids_len - 1)

LogitsReauthoredAtM(logits, input_ids_len) == PyIndex(logits, input_ids_len - 2)

\* outputs_reauthored[0][0, input_ids_len - 1, :], line 117.
LogitsReauthoredAt(logits, input_ids_len) == PyIndex(logits, input_ids_len - 1)

Abs(x) == IF x >= 0 THEN x ELSE -x

AllcloseM(a, b, tol) == \A v \in Vocab : Abs(a[v] - b[v]) = tol

AllcloseNoRtolM(a, b, tol) == \A v \in Vocab : Abs(a[v] - b[v]) <= tol

\* torch.allclose(input, other, atol=atol), line 120, with the default
\* rtol: every |input - other| <= atol + rtol * |other|.  For integers d and
\* x >= 0, d <= x / RtolInv exactly when d <= x \div RtolInv.
Allclose(a, b, tol) ==
  \A v \in Vocab : Abs(a[v] - b[v]) - tol <= Abs(b[v]) \div RtolInv

\* original_model.generate(prompt_tokens): the original model's built-in
\* greedy generation, which adds new_tokens tokens before it stops.
RECURSIVE OriginalGenerate(_, _, _)
OriginalGenerate(m, prompt, new_tokens) ==
  IF new_tokens = 0 THEN prompt
  ELSE OriginalGenerate(
         m,
         Append(prompt, Argmax(OriginalForward(m, prompt)[Len(prompt)])),
         new_tokens - 1)

GenerateLenM(outputs) == Len(outputs) - 1

\* generate_len = len(outputs_original[0]), line 152.
GenerateLen(outputs) == Len(outputs)

ResultTokenM(ok) == IF ok THEN <<"PASS">> ELSE <<>>

\* _log_msg("PASS") / _log_msg("FAILED"), lines 211-214 and 224-229.
ResultToken(ok) == IF ok THEN <<"PASS">> ELSE <<"FAILED">>

\* The default input_ids of verify_with_input_ids, line 86.
DefaultInputIds == <<1, 2, 3, 4>>

\* -------------------------------------------------------------------- state
VARIABLES
  entry,               \* the function the run entered
  pc,                  \* the line the run is at; "done" or "raised" at its end
  stack,               \* the return lines of the calls in progress
  original_model,      \* the original model instance
  reauthored_model,    \* the reauthored model instance
  prompts,             \* generate's prompts[0]
  response_len,        \* generate's response_len
  input_ids,           \* generate's local list input_ids
  kv_cache,            \* generate's local kv_cache
  iters_left,          \* iterations left of generate's range(...)
  gen_ret,             \* <<value>> once generate has returned
  ids_in,              \* verify_with_input_ids' input_ids[0]
  atol,                \* the tolerance
  tokens,              \* verify_with_input_ids' padded buffer
  logits_original,     \* <<vector>> once extracted
  logits_reauthored,   \* <<vector>> once extracted
  ids_ret,             \* <<value>> once verify_with_input_ids has returned
  text,                \* verify_model_with_prompts' prompts (text)
  prompt_tokens,       \* the encoded prompt
  outputs_original,    \* the original model's generated ids
  generate_len,        \* <<value>> once measured
  response_original,   \* <<text>> once decoded
  response_reauthored, \* <<text>> once decoded
  prompts_ret,         \* <<value>> once verify_model_with_prompts has returned
  console,             \* the PASS / FAILED tokens logged, in order
  calls,               \* every forward of the reauthored model: arguments, result
  original_calls,      \* every forward of the original model: its argument
  caches_built,        \* every KVCache.from_model_config call: who, and when
  encodes              \* number of tokenizer.encode calls

vars ==
  << entry, pc, stack, original_model, reauthored_model, prompts, response_len,
     input_ids, kv_cache, iters_left, gen_ret, ids_in, atol, tokens,
     logits_original, logits_reauthored, ids_ret, text, prompt_tokens,
     outputs_original, generate_len, response_original, response_reauthored,
     prompts_ret, console, calls, original_calls, caches_built, encodes >>

genVars == << input_ids, kv_cache, iters_left, gen_ret >>
genArgs == << prompts, response_len >>
idsVars == << tokens, logits_original, logits_reauthored, ids_ret >>
idsArgs == << ids_in, atol >>
promptVars ==
  << prompt_tokens, outputs_original, generate_len, response_original,
     response_reauthored, prompts_ret, encodes >>
modelVars == << entry, original_model, reauthored_model, text >>

SeqsUpTo(S, n) == UNION {[1 .. k -> S] : k \in 0 .. n}

TokenSeqs == SeqsUpTo(Vocab, MaxPromptLen)

\* Prompt texts are not empty.
Texts == SeqsUpTo(Chars, MaxTextLen) \ {<<>>}

Atols == 0 .. MaxAtol

Entries ==
  {"generate", "verify_with_input_ids", "verify_model_with_prompts",
   "verify_reauthored_transformers"}

FirstLine(e) ==
  CASE e = "generate" -> "generate_74"
    [] e = "verify_with_input_ids" -> "ids_105"
    [] e = "verify_model_with_prompts" -> "prompts_144"
    [] e = "verify_reauthored_transformers" -> "orch_189"

\* The state when one of the four functions is entered.  Arguments of the
\* functions that are not the entry are set when those are called.
Init ==
  /\ entry \in Entries
  /\ pc = FirstLine(entry)
  /\ stack = <<>>
  /\ reauthored_model \in Models
  /\ original_model \in IF entry = "generate" THEN {1} ELSE Models
  /\ prompts \in IF entry = "generate" THEN TokenSeqs ELSE {<<>>}
  /\ response_len \in IF entry = "generate" THEN 0 .. MaxResponseLen ELSE {0}
  /\ entry = "generate" => response_len <= KvCacheMaxLen
  /\ ids_in \in IF entry = "verify_with_input_ids" THEN TokenSeqs ELSE {<<>>}
  /\ atol \in IF entry \in {"verify_with_input_ids",
                            "verify_reauthored_transformers"}
              THEN Atols ELSE {0}
  /\ text \in IF entry \in {"verify_model_with_prompts",
                            "verify_reauthored_transformers"}
              THEN Texts ELSE {<<"a">>}
  /\ input_ids = <<>>
  /\ kv_cache = FromModelConfig
  /\ iters_left = 0
  /\ gen_ret = <<>>
  /\ tokens = <<>>
  /\ logits_original = <<>>
  /\ logits_reauthored = <<>>
  /\ ids_ret = <<>>
  /\ prompt_tokens = <<>>
  /\ outputs_original = <<>>
  /\ generate_len = <<>>
  /\ response_original = <<>>
  /\ response_reauthored = <<>>
  /\ prompts_ret = <<>>
  /\ console = <<>>
  /\ calls = <<>>
  /\ original_calls = <<>>
  /\ caches_built = <<>>
  /\ encodes = 0

\* Return to the caller, or end the run when there is none.
Return ==
  IF stack = <<>>
  THEN /\ pc' = "done"
       /\ stack' = stack
  ELSE /\ pc' = stack[Len(stack)]
       /\ stack' = SubSeq(stack, 1, Len(stack) - 1)

\* What the run remembers of one forward of the reauthored model: the
\* function that made the call, the arguments and the result.
CallRecord(caller, toks, kv, out) ==
  [caller |-> caller, tokens |-> toks, input_pos |-> InputPos(toks),
   cache_in |-> kv, logits |-> out.logits, cache_out |-> out.kv_cache]

\* What the run remembers of one KVCache.from_model_config: the function
\* that built the cache and how many forwards had been made by then.
CacheRecord(caller) == [caller |-> caller, calls_before |-> Len(calls)]

\* ----------------------------------------------------------------- generate
\* Lines 74-76: copy the prompt, build the cache, fix the iteration count.
GenerateEnter ==
  /\ pc = "generate_74"
  /\ input_ids' = prompts
  /\ kv_cache' = FromModelConfig
  /\ caches_built' = Append(caches_built, CacheRecord("generate"))
  /\ iters_left' = LoopCount(response_len, prompts)
  /\ gen_ret' = <<>>
  /\ pc' = "generate_76"
  /\ UNCHANGED << stack, genArgs, idsVars, idsArgs, promptVars, modelVars,
                  console, calls, original_calls >>

\* Lines 77-79: one iteration, on a sequence with a last position.
GenerateIterate ==
  /\ pc = "generate_76"
  /\ iters_left > 0
  /\ Len(input_ids) > 0
  /\ LET out == forward(reauthored_model, input_ids, kv_cache)
     IN  /\ calls' = Append(calls, CallRecord("generate", input_ids, kv_cache, out))
         /\ kv_cache' = out.kv_cache
         /\ input_ids' = Append(input_ids, GeneratedToken(out.logits))
  /\ iters_left' = iters_left - 1
  /\ UNCHANGED << pc, stack, gen_ret, genArgs, idsVars, idsArgs, promptVars,
                  modelVars, console, original_calls, caches_built >>

\* Lines 77-78 on an empty sequence: the model returns logits for no
\* position, and logits[0][-1] raises IndexError.
GenerateIndexError ==
  /\ pc = "generate_76"
  /\ iters_left > 0
  /\ Len(input_ids) = 0
  /\ LET out == forward(reauthored_model, input_ids, kv_cache)
     IN  /\ calls' = Append(calls, CallRecord("generate", input_ids, kv_cache, out))
         /\ kv_cache' = out.kv_cache
  /\ pc' = "raised"
  /\ UNCHANGED << stack, input_ids, iters_left, gen_ret, genArgs, idsVars,
                  idsArgs, promptVars, modelVars, console, original_calls,
                  caches_built >>

\* Line 80: the loop is over; return the list as a tensor.
GenerateReturn ==
  /\ pc = "generate_76"
  /\ iters_left = 0
  /\ gen_ret' = <<input_ids>>
  /\ Return
  /\ UNCHANGED << input_ids, kv_cache, iters_left, genArgs, idsVars, idsArgs,
                  promptVars, modelVars, console, calls, original_calls,
                  caches_built >>

\* ---------------------------------------------------- verify_with_input_ids
\* Lines 105-107: the zero-padded buffer.
IdsPad ==
  /\ pc = "ids_105"
  /\ Len(ids_in) <= KvCacheMaxLen
  /\ tokens' = PadTokens(ids_in, KvCacheMaxLen)
  /\ logits_original' = <<>>
  /\ logits_reauthored' = <<>>
  /\ ids_ret' = <<>>
  /\ pc' = "ids_110"
  /\ UNCHANGED << stack, genVars, genArgs, idsArgs, promptVars, modelVars,
                  console, calls, original_calls, caches_built >>

\* Lines 109-112: the original model's native forward, no cache.
IdsForwardOriginal ==
  /\ pc = "ids_110"
  /\ original_calls' = Append(original_calls, tokens)
  /\ logits_original' =
       << LogitsOriginalAt(OriginalForward(original_model, tokens),
                           Len(ids_in)) >>
  /\ pc' = "ids_115"
  /\ UNCHANGED << stack, genVars, genArgs, idsArgs, tokens, logits_reauthored,
                  ids_ret, promptVars, modelVars, console, calls,
                  caches_built >>

\* Lines 114-118: a fresh cache and one forward of the reauthored model.
IdsForwardReauthored ==
  /\ pc = "ids_115"
  /\ caches_built' = Append(caches_built, CacheRecord("verify_with_input_ids"))
  /\ LET out == forward(reauthored_model, tokens, FromModelConfig)
     IN  /\ calls' = Append(calls, CallRecord("verify_with_input_ids", tokens,
                                              FromModelConfig, out))
         /\ logits_reauthored' =
              << LogitsReauthoredAt(out.logits, Len(ids_in)) >>
  /\ pc' = "ids_120"
  /\ UNCHANGED << stack, genVars, genArgs, idsArgs, tokens, logits_original,
                  ids_ret, promptVars, modelVars, console, original_calls >>

\* Line 120: the comparison.
IdsReturn ==
  /\ pc = "ids_120"
  /\ ids_ret' = << Allclose(logits_original[1], logits_reauthored[1], atol) >>
  /\ Return
  /\ UNCHANGED << genVars, genArgs, idsArgs, tokens, logits_original,
                  logits_reauthored, promptVars, modelVars, console, calls,
                  original_calls, caches_built >>

\* ------------------------------------------------ verify_model_with_prompts
\* Line 144: encode the prompt text.
PromptsEncode ==
  /\ pc = "prompts_144"
  /\ prompt_tokens' = Encode(text)
  /\ encodes' = encodes + 1
  /\ outputs_original' = <<>>
  /\ generate_len' = <<>>
  /\ response_original' = <<>>
  /\ response_reauthored' = <<>>
  /\ prompts_ret' = <<>>
  /\ pc' = "prompts_147"
  /\ UNCHANGED << stack, genVars, genArgs, idsVars, idsArgs, modelVars,
                  console, calls, original_calls, caches_built >>

\* Lines 146-149: the original model generates and its output is decoded.
\* Where the original model stops is its own business: any number of new
\* tokens that still fits the reauthored model's cache.
PromptsGenerateOriginal ==
  /\ pc = "prompts_147"
  /\ \E new_tokens \in 0 .. MaxNewTokens :
       /\ Len(prompt_tokens) + new_tokens <= KvCacheMaxLen
       /\ outputs_original' =
            OriginalGenerate(original_model, prompt_tokens, new_tokens)
  /\ response_original' = << Decode(outputs_original') >>
  /\ pc' = "prompts_152"
  /\ UNCHANGED << stack, genVars, genArgs, idsVars, idsArgs, prompt_tokens,
                  generate_len, response_reauthored, prompts_ret, encodes,
                  modelVars, console, calls, original_calls, caches_built >>

\* Lines 151-153: measure the original output and call generate.
PromptsCallGenerate ==
  /\ pc = "prompts_152"
  /\ generate_len' = << GenerateLen(outputs_original) >>
  /\ prompts' = prompt_tokens
  /\ response_len' = GenerateLen(outputs_original)
  /\ stack' = Append(stack, "prompts_154")
  /\ pc' = "generate_74"
  /\ UNCHANGED << genVars, idsVars, idsArgs, prompt_tokens, outputs_original,
                  response_original, response_reauthored, prompts_ret,
                  encodes, modelVars, console, calls, original_calls,
                  caches_built >>

\* Lines 154-157: decode the reauthored output and compare the two texts.
PromptsReturn ==
  /\ pc = "prompts_154"
  /\ response_reauthored' = << Decode(gen_ret[1]) >>
  /\ prompts_ret' = << response_original[1] = Decode(gen_ret[1]) >>
  /\ Return
  /\ UNCHANGED << genVars, genArgs, idsVars, idsArgs, prompt_tokens,
                  outputs_original, generate_len, response_original, encodes,
                  modelVars, console, calls, original_calls, caches_built >>

\* ------------------------------------------- verify_reauthored_transformers
\* Lines 189-208: load the original model, resolve the checkpoint directory
\* and build the reauthored model.
OrchLoadModels ==
  /\ pc = "orch_189"
  /\ pc' = "orch_210"
  /\ UNCHANGED << stack, genVars, genArgs, idsVars, idsArgs, promptVars,
                  modelVars, console, calls, original_calls, caches_built >>

\* Lines 190-208 failing: a load error propagates and ends the run.
OrchLoadModelsFails ==
  /\ pc = "orch_189"
  /\ pc' = "raised"
  /\ UNCHANGED << stack, genVars, genArgs, idsVars, idsArgs, promptVars,
                  modelVars, console, calls, original_calls, caches_built >>

\* Lines 210-211: call verify_with_input_ids with its default input_ids.
OrchCallIds ==
  /\ pc = "orch_210"
  /\ ids_in' = DefaultInputIds
  /\ stack' = Append(stack, "orch_212")
  /\ pc' = "ids_105"
  /\ UNCHANGED << genVars, genArgs, idsVars, atol, promptVars, modelVars,
                  console, calls, original_calls, caches_built >>

\* Lines 211-214: log the first result.
OrchLogIds ==
  /\ pc = "orch_212"
  /\ console' = console \o ResultToken(ids_ret[1])
  /\ pc' = "orch_216"
  /\ UNCHANGED << stack, genVars, genArgs, idsVars, idsArgs, promptVars,
                  modelVars, calls, original_calls, caches_built >>

\* Lines 216-222: load the tokenizer.
OrchLoadTokenizer ==
  /\ pc = "orch_216"
  /\ pc' = "orch_223"
  /\ UNCHANGED << stack, genVars, genArgs, idsVars, idsArgs, promptVars,
                  modelVars, console, calls, original_calls, caches_built >>

\* Lines 219-222 failing: a load error propagates and ends the run.
OrchLoadTokenizerFails ==
  /\ pc = "orch_216"
  /\ pc' = "raised"
  /\ UNCHANGED << stack, genVars, genArgs, idsVars, idsArgs, promptVars,
                  modelVars, console, calls, original_calls, caches_built >>

\* Lines 223-226: call verify_model_with_prompts.
OrchCallPrompts ==
  /\ pc = "orch_223"
  /\ stack' = Append(stack, "orch_227")
  /\ pc' = "prompts_144"
  /\ UNCHANGED << genVars, genArgs, idsVars, idsArgs, promptVars, modelVars,
                  console, calls, original_calls, caches_built >>

\* Lines 224-229: log the second result; the function ends.
OrchLogPrompts ==
  /\ pc = "orch_227"
  /\ console' = console \o ResultToken(prompts_ret[1])
  /\ pc' = "done"
  /\ UNCHANGED << stack, genVars, genArgs, idsVars, idsArgs, promptVars,
                  modelVars, calls, original_calls, caches_built >>

Next ==
  \/ GenerateEnter
  \/ GenerateIterate
  \/ GenerateIndexError
  \/ GenerateReturn
  \/ IdsPad
  \/ IdsForwardOriginal
  \/ IdsForwardReauthored
  \/ IdsReturn
  \/ PromptsEncode
  \/ PromptsGenerateOriginal
  \/ PromptsCallGenerate
  \/ PromptsReturn
  \/ OrchLoadModels
  \/ OrchLoadModelsFails
  \/ OrchCallIds
  \/ OrchLogIds
  \/ OrchLoadTokenizer
  \/ OrchLoadTokenizerFails
  \/ OrchCallPrompts
  \/ OrchLogPrompts

Spec == Init /\ [][Next]_vars

\* ------------------------------------------------------------------ claims
Finished == pc \in {"done", "raised"}

CallsOf(caller) == SelectSeq(calls, LAMBDA c : c.caller = caller)

CachesOf(caller) == SelectSeq(caches_built, LAMBDA c : c.caller = caller)

IsMaxIndex(row, v) == \A u \in DOMAIN row : row[u] <= row[v]

IsPrefix(p, q) == Len(p) <= Len(q) /\ SubSeq(q, 1, Len(p)) = p

Token(ok) == IF ok THEN "PASS" ELSE "FAILED"

\* Greedy decoding written directly over the model's logit function, with
\* no cache: the output as a function of model, prompt and target length.
RECURSIVE GreedyReference(_, _, _)
GreedyReference(m, ids, len) ==
  IF Len(ids) >= len THEN ids
  ELSE LET row == LogitsRow(m, ids)
           top == CHOOSE v \in Vocab :
                    /\ IsMaxIndex(row, v)
                    /\ \A u \in Vocab : IsMaxIndex(row, u) => v <= u
       IN  GreedyReference(m, Append(ids, top), len)

\* C1: whenever generate is entered with a target length >= the prompt
\* length, it ends by returning (not by raising), and the sequence it returns
\* has exactly the target length.
C1_ReturnsTargetLength ==
  (entry = "generate" /\ response_len >= Len(prompts) /\ Finished)
    => /\ pc = "done"
       /\ gen_ret # <<>>
       /\ Len(gen_ret[1]) = response_len

\* C2: when generate is called with a target length <= the prompt length,
\* the loop runs zero iterations, the model is never invoked by generate, and
\* the sequence returned is the prompt unchanged.
C2_ZeroIterationsIdentity ==
  response_len <= Len(prompts)
    => /\ pc = "generate_76"
            => iters_left = 0 /\ input_ids = prompts
                 /\ CallsOf("generate") = <<>>
       /\ gen_ret # <<>>
            => gen_ret[1] = prompts /\ CallsOf("generate") = <<>>

C2_Witness ==
  /\ entry = "generate"
  /\ pc = "done"
  /\ response_len < Len(prompts)
  /\ gen_ret = <<prompts>>
  /\ calls = <<>>

\* C3: every iteration of generate runs the model on the whole current
\* sequence with positions 0..len-1 and appends an index of the maximum of
\* the last position's logit vector; the tokens already in the sequence stay
\* as they are, so the prompt is a prefix of the sequence at every point and
\* of the output; and the output is a function of model, prompt and target.
C3_GreedyStep ==
  /\ [][(pc = "generate_76" /\ input_ids' # input_ids)
          => /\ Len(calls') = Len(calls) + 1
             /\ LET c == calls'[Len(calls')]
                    n == Len(input_ids)
                IN  /\ c.caller = "generate"
                    /\ c.tokens = input_ids
                    /\ c.input_pos = [j \in 1 .. n |-> j - 1]
                    /\ Len(c.logits) = n
                    /\ Len(input_ids') = n + 1
                    /\ SubSeq(input_ids', 1, n) = input_ids
                    /\ IsMaxIndex(c.logits[n], input_ids'[n + 1])]_vars
  /\ [](pc = "generate_76" => IsPrefix(prompts, input_ids))
  /\ [](gen_ret # <<>>
          => /\ IsPrefix(prompts, gen_ret[1])
             /\ gen_ret[1]
                  = GreedyReference(reauthored_model, prompts, response_len))

C3_Witness ==
  /\ entry = "generate"
  /\ pc = "done"
  /\ Len(prompts) >= 1
  /\ Len(gen_ret[1]) >= Len(prompts) + 2
  /\ Len(CallsOf("generate")) >= 2

\* The element-wise test "within atol", with no relative term.
WithinAtol(a, b, tol) == \A v \in Vocab : Abs(a[v] - b[v]) <= tol

\* The element-wise test |a - b| <= atol + |b| / RtolInv over the rationals.
\* A surplus e above 21474 cannot be covered by a 32-bit |b|.
WithinAtolRtol(a, b, tol) ==
  \A v \in Vocab :
    LET e == Abs(a[v] - b[v]) - tol
    IN  e <= 0 \/ (e <= 21474 /\ e * RtolInv <= Abs(b[v]))

\* C4 as claimed: verify_with_input_ids returns true if and only if every
\* element-wise absolute difference of the two logit vectors is within atol.
C4_TrueIffWithinAtol ==
  ids_ret # <<>>
    => (ids_ret[1] <=> WithinAtol(logits_original[1], logits_reauthored[1],
                                  atol))

\* C4 as amended: verify_with_input_ids returns true if and only if every
\* element-wise absolute difference |original - reauthored| is at most
\* atol + 1e-5 * |reauthored| (torch.allclose's default relative tolerance).
C4_TrueIffWithinAtolPlusRtol ==
  ids_ret # <<>>
    => (ids_ret[1] <=> WithinAtolRtol(logits_original[1],
                                      logits_reauthored[1], atol))

C4_Witness ==
  /\ ids_ret = <<TRUE>>
  /\ ~WithinAtol(logits_original[1], logits_reauthored[1], atol)

\* C5: verify_with_input_ids builds a buffer of the cache's maximum length
\* holding the input ids at positions 0..n-1 and zero elsewhere, runs the
\* original model exactly once on that buffer with no cache, runs the
\* reauthored model exactly once on the same buffer with a cache built for
\* that call, and compares the vectors at index n - 1 of the two outputs.
C5_PaddedBufferOneForwardEach ==
  ids_ret # <<>>
    => LET n == Len(ids_in)
           mine == CallsOf("verify_with_input_ids")
       IN  /\ Len(tokens) = KvCacheMaxLen
           /\ \A p \in 1 .. KvCacheMaxLen :
                tokens[p] = IF p <= n THEN ids_in[p] ELSE 0
           /\ original_calls = <<tokens>>
           /\ Len(mine) = 1
           /\ mine[1].tokens = tokens
           /\ mine[1].cache_in.step = 0
           /\ \A p \in 1 .. KvCacheMaxLen : mine[1].cache_in.entries[p] = 0
           /\ Len(CachesOf("verify_with_input_ids")) = 1
           /\ n >= 1 =>
                /\ logits_original[1]
                     = LogitsRow(original_model, SubSeq(tokens, 1, n))
                /\ logits_reauthored[1] = mine[1].logits[n]

C5_Witness ==
  /\ entry = "verify_with_input_ids"
  /\ pc = "done"
  /\ Len(ids_in) = 2
  /\ ids_in[1] # 0 /\ ids_in[2] # 0
  /\ tokens[3] = 0

IdsLines == {"ids_105", "ids_110", "ids_115", "ids_120"}

PromptsLines ==
  {"prompts_144", "prompts_147", "prompts_152", "prompts_154", "generate_74",
   "generate_76"}

\* C6: verify_reauthored_transformers runs verify_with_input_ids and then
\* verify_model_with_prompts; a false result of either does not end the run
\* with an error (only a load does); and a completed run has attempted both
\* checks and logged exactly one of PASS or FAILED for each, two in all.
C6_BothChecksLogged ==
  entry = "verify_reauthored_transformers"
    => /\ pc \in ({"orch_189", "orch_210", "orch_212"} \cup IdsLines)
            => console = <<>> /\ prompts_ret = <<>> /\ encodes = 0
       /\ pc \in ({"orch_216", "orch_223", "orch_227"} \cup PromptsLines)
            => ids_ret # <<>> /\ console = <<Token(ids_ret[1])>>
       /\ pc = "raised"
            => /\ prompts_ret = <<>>
               /\ \/ ids_ret = <<>> /\ console = <<>>
                  \/ ids_ret # <<>> /\ console = <<Token(ids_ret[1])>>
       /\ pc = "done"
            => /\ ids_ret # <<>> /\ prompts_ret # <<>>
               /\ console = <<Token(ids_ret[1]), Token(prompts_ret[1])>>

C6_Witness ==
  /\ entry = "verify_reauthored_transformers"
  /\ pc = "done"
  /\ ids_ret = <<FALSE>>
  /\ console[1] = "FAILED"
  /\ Len(console) = 2

\* C7: with the same model as original and reauthored (one logit function
\* behind both calling conventions, greedy built-in generation),
\* verify_with_input_ids returns true for every input and tolerance and
\* verify_model_with_prompts returns true for every prompt.
C7_Reflexive ==
  original_model = reauthored_model
    => /\ ids_ret # <<>> => ids_ret[1]
       /\ prompts_ret # <<>> => prompts_ret[1]

C7_Witness ==
  /\ entry = "verify_reauthored_transformers"
  /\ pc = "done"
  /\ original_model = reauthored_model
  /\ ids_ret = <<TRUE>>
  /\ prompts_ret = <<TRUE>>
  /\ Len(outputs_original) = Len(prompt_tokens) + MaxNewTokens

\* The two outputs differ in the first generated token and nowhere else.
DifferOnlyInFirstGenerated(a, b) ==
  LET n == Len(prompt_tokens)
  IN  /\ Len(a) = Len(b)
      /\ Len(a) > n
      /\ a[n + 1] # b[n + 1]
      /\ \A i \in 1 .. Len(a) : i # n + 1 => a[i] = b[i]

EncodedOnceSameLengthTextCompared ==
  /\ encodes = 1
  /\ generate_len = << Len(outputs_original) >>
  /\ Len(gen_ret[1]) = Len(outputs_original)
  /\ IsPrefix(prompt_tokens, gen_ret[1])
  /\ prompts_ret[1] <=> (response_original[1] = response_reauthored[1])

\* C8 as claimed: verify_model_with_prompts encodes the prompt once,
\* generates from the reauthored model as many tokens in total as the
\* original output holds, and returns true iff the decoded texts are equal;
\* for two models that agree on every token but the first generated one, it
\* returns false.
C8_FirstTokenDivergenceFails ==
  prompts_ret # <<>>
    => /\ EncodedOnceSameLengthTextCompared
       /\ DifferOnlyInFirstGenerated(outputs_original, gen_ret[1])
            => prompts_ret[1] = FALSE

\* C8 as amended: the same, except that for two models that agree on every
\* token but the first generated one it returns false exactly when the
\* tokenizer decodes the two differing tokens to different text; two token
\* ids that decode to the same text give equal texts, and it returns true.
C8_FirstTokenDivergenceFailsIffTextDiffers ==
  prompts_ret # <<>>
    => /\ EncodedOnceSameLengthTextCompared
       /\ DifferOnlyInFirstGenerated(outputs_original, gen_ret[1])
            => LET n == Len(prompt_tokens)
               IN  prompts_ret[1]
                     <=> VocabPieces[outputs_original[n + 1] + 1]
                           = VocabPieces[gen_ret[1][n + 1] + 1]

C8_Witness ==
  /\ prompts_ret = <<TRUE>>
  /\ DifferOnlyInFirstGenerated(outputs_original, gen_ret[1])

\* C9: for fixed models and input ids, if verify_with_input_ids returns
\* true with tolerance a, the comparison it makes is true with every
\* tolerance b >= a.
C9_ToleranceMonotone ==
  (ids_ret # <<>> /\ ids_ret[1])
    => \A b \in atol .. (MaxAtol + 4) :
         Allclose(logits_original[1], logits_reauthored[1], b)

C9_Witness ==
  /\ ids_ret = <<TRUE>>
  /\ original_model # reauthored_model
  /\ atol >= 1
  /\ atol < MaxAtol
  /\ ~WithinAtolRtol(logits_original[1], logits_reauthored[1], atol - 1)

Max0(x) == IF x > 0 THEN x ELSE 0

\* C10: in generate the cache is built exactly once, before the first
\* iteration; the model is invoked exactly max(0, target - prompt length)
\* times; and the cache handed to every invocation after the first is the
\* one the invocation before it returned.
C10_CacheThreaded ==
  (Finished /\ CachesOf("generate") # <<>>)
    => LET mine == CallsOf("generate")
       IN  /\ Len(CachesOf("generate")) = 1
           /\ Len(mine) = Max0(response_len - Len(prompts))
           /\ Len(mine) >= 1 =>
                /\ mine[1].cache_in = FromModelConfig
                /\ Len(SelectSeq(SubSeq(calls, 1,
                         CachesOf("generate")[1].calls_before),
                         LAMBDA c : c.caller = "generate")) = 0
           /\ \A i \in 2 .. Len(mine) :
                mine[i].cache_in = mine[i - 1].cache_out

====
